---- MODULE Spec2Model ----
(***************************************************************************)
(* Energy-advice chatbot (src/main.py): the consumption classifier         *)
(* get_consumption_level, the recommendation generator get_recommendations,*)
(* the keyword matcher get_additional_recommendations and the              *)
(* conversational state machine process_message behind chat_endpoint.      *)
(*                                                                         *)
(* Text is a sequence of one-character strings.  A Python float is a       *)
(* record [k, n, d]: k = "fin" is the rational n/d in lowest terms         *)
(* (d > 0), k = "inf" / "ninf" / "nan" are the IEEE specials.  The         *)
(* datasets drawn in Init have a rational sample standard deviation, so    *)
(* the statistics are exact.  A turn is a call of process_message through  *)
(* chat_endpoint and what it returns or raises; the JSON encoding of the   *)
(* response is the transport's.                                            *)
(***************************************************************************)
EXTENDS Integers, Sequences, FiniteSets, TLC

VARIABLES
    energy_data,   \* the module-level dataset loaded by load_data()
    state,         \* conversation -> the state dict its caller holds
    last,          \* conversation -> the last turn: state sent, message, outcome, reply
    hist,          \* conversation -> its log: the state it began with and the
                   \* messages it sent since (kept in the logged runs only)
    pc,            \* position of the scripted dialogue; in the counted dialogue,
                   \* the turns that changed the step since it was at step 0
    rec,           \* last direct call of a function: its inputs and its result
    prev           \* the call before it

vars == <<energy_data, state, last, hist, pc, rec, prev>>

-----------------------------------------------------------------------------
(* Numbers                                                                 *)

Abs(x) == IF x < 0 THEN -x ELSE x

RECURSIVE GCD(_, _)
GCD(a, b) == IF b = 0 THEN a ELSE GCD(b, a % b)

\* The rational n/d (d # 0) in lowest terms with a positive denominator.
Reduced(n, d, g) == [k |-> "fin", n |-> n \div g, d |-> d \div g]
Fin(n, d) ==
    IF d < 0 THEN Reduced(-n, -d, GCD(Abs(n), Abs(d))) ELSE Reduced(n, d, GCD(Abs(n), Abs(d)))

FromInt(i) == Fin(i, 1)
Inf  == [k |-> "inf",  n |-> 0, d |-> 1]
NInf == [k |-> "ninf", n |-> 0, d |-> 1]
NaN  == [k |-> "nan",  n |-> 0, d |-> 1]

IsFinite(x) == x.k = "fin"
Sign(x) == CASE x.k = "inf"  -> 1
             [] x.k = "ninf" -> -1
             [] x.k = "nan"  -> 0
             [] OTHER        -> IF x.n > 0 THEN 1 ELSE IF x.n < 0 THEN -1 ELSE 0

\* IEEE comparisons: every comparison with nan is false.
FLt(x, y) ==
    CASE x.k = "nan" \/ y.k = "nan" -> FALSE
      [] x.k = "ninf" -> y.k # "ninf"
      [] x.k = "inf"  -> FALSE
      [] y.k = "inf"  -> TRUE
      [] y.k = "ninf" -> FALSE
      [] OTHER        -> x.n * y.d < y.n * x.d
FGt(x, y) == FLt(y, x)
FEq(x, y) == x.k # "nan" /\ y.k # "nan" /\ ~FLt(x, y) /\ ~FLt(y, x)
FLe(x, y) == FLt(x, y) \/ FEq(x, y)

FNeg(x) ==
    CASE x.k = "inf"  -> NInf
      [] x.k = "ninf" -> Inf
      [] x.k = "nan"  -> NaN
      [] OTHER        -> Fin(-x.n, x.d)

FAdd(x, y) ==
    CASE x.k = "nan" \/ y.k = "nan" -> NaN
      [] x.k = "fin" /\ y.k = "fin" -> Fin(x.n * y.d + y.n * x.d, x.d * y.d)
      [] x.k = "fin" -> y
      [] y.k = "fin" -> x
      [] OTHER       -> IF x.k = y.k THEN x ELSE NaN
FSub(x, y) == FAdd(x, FNeg(y))

FMul(x, y) ==
    CASE x.k = "nan" \/ y.k = "nan" -> NaN
      [] x.k = "fin" /\ y.k = "fin" -> Fin(x.n * y.n, x.d * y.d)
      [] Sign(x) * Sign(y) > 0 -> Inf
      [] Sign(x) * Sign(y) < 0 -> NInf
      [] OTHER                 -> NaN

\* Division of a float by a non-zero Python int.
FDivInt(x, i) ==
    CASE x.k = "nan" -> NaN
      [] x.k = "fin" -> Fin(x.n, x.d * i)
      [] OTHER       -> IF (Sign(x) > 0) = (i > 0) THEN Inf ELSE NInf

RECURSIVE Pow10(_)
Pow10(e) == IF e = 0 THEN 1 ELSE 10 * Pow10(e - 1)

\* Exact square root of a non-negative rational that has one.
SqrtBound == 1000
ISqrt(m) == CHOOSE r \in 0..SqrtBound : r * r = m
FSqrt(x) == Fin(ISqrt(x.n), ISqrt(x.d))

\* The ".2f" rendering: a finite value becomes its number of hundredths,
\* rounded to nearest, ties to even; the specials render as themselves.
RoundHalfEven(q, r, d) == IF 2 * r > d \/ (2 * r = d /\ q % 2 = 1) THEN q + 1 ELSE q
Hundredths(a, d) == RoundHalfEven((a * 100) \div d, (a * 100) % d, d)
Fmt2(x) ==
    CASE x.k # "fin" -> [k |-> x.k, h |-> 0]
      [] x.n < 0     -> [k |-> "fin", h |-> -Hundredths(-x.n, x.d)]
      [] OTHER       -> [k |-> "fin", h |-> Hundredths(x.n, x.d)]

-----------------------------------------------------------------------------
(* Text                                                                    *)

Whitespace == {" "}
Digits == {"0", "1", "2", "3", "4", "5", "6", "7", "8", "9"}
DigitVal(c) ==
    CASE c = "0" -> 0 [] c = "1" -> 1 [] c = "2" -> 2 [] c = "3" -> 3
      [] c = "4" -> 4 [] c = "5" -> 5 [] c = "6" -> 6 [] c = "7" -> 7
      [] c = "8" -> 8 [] c = "9" -> 9

UpperChars == <<"A", "B", "C", "D", "E", "F", "G", "H", "I", "J", "K", "L", "M",
                "N", "O", "P", "Q", "R", "S", "T", "U", "V", "W", "X", "Y", "Z",
                "Á", "É", "Í", "Ó", "Ú", "Ñ">>
LowerChars == <<"a", "b", "c", "d", "e", "f", "g", "h", "i", "j", "k", "l", "m",
                "n", "o", "p", "q", "r", "s", "t", "u", "v", "w", "x", "y", "z",
                "á", "é", "í", "ó", "ú", "ñ">>
LowerChar(c) ==
    IF \E i \in 1..Len(UpperChars) : UpperChars[i] = c
    THEN LowerChars[CHOOSE i \in 1..Len(UpperChars) : UpperChars[i] = c]
    ELSE c

\* str.lower()
Lower(s) == [i \in 1..Len(s) |-> LowerChar(s[i])]

\* str.strip()
RECURSIVE LStrip(_)
LStrip(s) == IF s # <<>> /\ Head(s) \in Whitespace THEN LStrip(Tail(s)) ELSE s
RECURSIVE RStrip(_)
RStrip(s) ==
    IF s # <<>> /\ s[Len(s)] \in Whitespace THEN RStrip(SubSeq(s, 1, Len(s) - 1)) ELSE s
Strip(s) == RStrip(LStrip(s))

\* needle in hay
Contains(hay, needle) ==
    \E i \in 0..(Len(hay) - Len(needle)) : SubSeq(hay, i + 1, i + Len(needle)) = needle

\* First position of a character of cs in s, 0 when there is none.
IndexOf(s, cs) ==
    IF \E i \in 1..Len(s) : s[i] \in cs
    THEN CHOOSE i \in 1..Len(s) : s[i] \in cs /\ \A j \in 1..(i - 1) : s[j] \notin cs
    ELSE 0

AllDigits(s) == \A i \in 1..Len(s) : s[i] \in Digits
RECURSIVE DigitsVal(_)
DigitsVal(s) ==
    IF s = <<>> THEN 0 ELSE 10 * DigitsVal(SubSeq(s, 1, Len(s) - 1)) + DigitVal(s[Len(s)])

\* A leading sign: the factor it stands for and the text after it.
SignOf(s) == IF s # <<>> /\ Head(s) = "-" THEN -1 ELSE 1
Unsigned(s) == IF s # <<>> /\ Head(s) \in {"+", "-"} THEN Tail(s) ELSE s

\* int(message): surrounding whitespace, an optional sign, decimal digits.
\* [ok |-> FALSE] is ValueError.
IntOf(sg, body) ==
    IF body # <<>> /\ AllDigits(body)
    THEN [ok |-> TRUE, v |-> sg * DigitsVal(body)]
    ELSE [ok |-> FALSE, v |-> 0]
IntOfStripped(t) == IntOf(SignOf(t), Unsigned(t))
ParseInt(message) == IntOfStripped(Strip(message))

\* float(message): surrounding whitespace, an optional sign, then inf,
\* infinity or nan in any case, or digits with an optional fraction and an
\* optional exponent.  [ok |-> FALSE] is ValueError.
Before(s, i) == IF i = 0 THEN s ELSE SubSeq(s, 1, i - 1)
After(s, i) == IF i = 0 THEN <<>> ELSE SubSeq(s, i + 1, Len(s))
Scaled(num, fracLen, e) ==
    IF e >= 0 THEN Fin(num * Pow10(e), Pow10(fracLen))
    ELSE Fin(num, Pow10(fracLen) * Pow10(-e))
\* sg: the sign; ip, fp: integer and fraction digits; hasExp: an "e" was
\* there; expo: the text after it.
DecimalOf(sg, ip, fp, hasExp, expo) ==
    IF /\ AllDigits(ip) /\ AllDigits(fp) /\ (ip # <<>> \/ fp # <<>>)
       /\ ~hasExp \/ (Unsigned(expo) # <<>> /\ AllDigits(Unsigned(expo)))
    THEN [ok |-> TRUE,
          v |-> Scaled(sg * (DigitsVal(ip) * Pow10(Len(fp)) + DigitsVal(fp)), Len(fp),
                       IF hasExp THEN SignOf(expo) * DigitsVal(Unsigned(expo)) ELSE 0)]
    ELSE [ok |-> FALSE, v |-> NaN]
MantissaOf(sg, mant, dot, hasExp, expo) ==
    DecimalOf(sg, Before(mant, dot), After(mant, dot), hasExp, expo)
SplitExponent(sg, body, ePos) ==
    MantissaOf(sg, Before(body, ePos), IndexOf(Before(body, ePos), {"."}), ePos # 0,
               After(body, ePos))
FloatOf(sg, body, lb) ==
    CASE lb \in {<<"i", "n", "f">>, <<"i", "n", "f", "i", "n", "i", "t", "y">>}
               -> [ok |-> TRUE, v |-> IF sg = 1 THEN Inf ELSE NInf]
      [] lb = <<"n", "a", "n">> -> [ok |-> TRUE, v |-> NaN]
      [] OTHER -> SplitExponent(sg, body, IndexOf(body, {"e", "E"}))
FloatOfStripped(t) == FloatOf(SignOf(t), Unsigned(t), Lower(Unsigned(t)))
ParseFloat(message) == FloatOfStripped(Strip(message))

-----------------------------------------------------------------------------
(* Classifier and recommendation generator                                 *)

RECURSIVE FSum(_)
FSum(xs) == IF xs = <<>> THEN FromInt(0) ELSE FAdd(Head(xs), FSum(Tail(xs)))

RECURSIVE SelectSeqIdx(_, _)
\* The records of data with People > 0, in order.
SelectSeqIdx(data, i) ==
    IF i > Len(data) THEN <<>>
    ELSE IF data[i].People > 0
         THEN <<data[i]>> \o SelectSeqIdx(data, i + 1)
         ELSE SelectSeqIdx(data, i + 1)

\* The list comprehension of get_consumption_level.
PerPerson(valid) == [i \in 1..Len(valid) |-> Fin(valid[i].Consumption, valid[i].People)]
ConsumptionsPerPerson(data) == PerPerson(SelectSeqIdx(data, 1))

\* statistics.mean and statistics.stdev (sample standard deviation).
Mean(xs) == FDivInt(FSum(xs), Len(xs))
Square(x) == FMul(x, x)
SquaresAbout(xs, m) == [i \in 1..Len(xs) |-> Square(FSub(xs[i], m))]
Stdev(xs) == FSqrt(FDivInt(FSum(SquaresAbout(xs, Mean(xs))), Len(xs) - 1))

\* The comparisons with >= on the upper side.
LevelOfGE(consumption_per_person, upper, lower) ==
    IF FGt(consumption_per_person, upper) \/ FEq(consumption_per_person, upper)
    THEN "alto"
    ELSE IF FLt(consumption_per_person, lower) THEN "bajo" ELSE "normal"

\* The comparisons with the upper one reversed.
LevelOfReversed(consumption_per_person, upper, lower) ==
    IF FLt(consumption_per_person, upper)
    THEN "alto"
    ELSE IF FLt(consumption_per_person, lower) THEN "bajo" ELSE "normal"

\* Lines 33-38, with upper = avg + std and lower = avg - std.
LevelOf(consumption_per_person, upper, lower) ==
    IF FGt(consumption_per_person, upper)
    THEN "alto"
    ELSE IF FLt(consumption_per_person, lower) THEN "bajo" ELSE "normal"

Classification(consumption_per_person, avg_consumption, std_consumption) ==
    [exc |-> "none",
     level |-> LevelOf(consumption_per_person, FAdd(avg_consumption, std_consumption),
                       FSub(avg_consumption, std_consumption)),
     avg |-> avg_consumption, std |-> std_consumption]

\* Lines 31-32 tolerating a single valid record, with a deviation of 0.
ClassifyAgainstOne(consumption_per_person, xs) ==
    IF xs = <<>>
    THEN [exc |-> "StatisticsError", level |-> "", avg |-> NaN, std |-> NaN]
    ELSE IF Len(xs) = 1 THEN Classification(consumption_per_person, xs[1], FromInt(0))
    ELSE Classification(consumption_per_person, Mean(xs), Stdev(xs))

ClassifyAgainst(consumption_per_person, xs) ==
    IF Len(xs) < 2
    THEN [exc |-> "StatisticsError", level |-> "", avg |-> NaN, std |-> NaN]
    ELSE Classification(consumption_per_person, Mean(xs), Stdev(xs))

\* get_consumption_level: exc is "none" on return, else the exception raised.
GetConsumptionLevel(consumption_per_person, data) ==
    ClassifyAgainst(consumption_per_person, ConsumptionsPerPerson(data))

Line(t) == [text |-> t]
GeneralRecommendations ==
    << Line("Apaga las luces cuando no estés en la habitación"),
       Line("Utiliza bombillas LED de bajo consumo"),
       Line("Desconecta los aparatos electrónicos cuando no los uses"),
       Line("Aprovecha la luz natural durante el día") >>

SpecificRecommendations(level, cpp) ==
    CASE level = "alto" ->
           << Line("Revisa el aislamiento de tu hogar"),
              Line("Programa el termostato a temperaturas más eficientes"),
              [text |-> "El consumo por persona es {:.2f} kWh, intenta reducirlo",
               value |-> Fmt2(cpp)],
              Line("Realiza una auditoría energética de tu hogar") >>
      [] level = "normal" ->
           << Line("Usa electrodomésticos en horas valle"),
              Line("Instala temporizadores en equipos de alto consumo"),
              [text |-> "El consumo por persona es {:.2f} kWh", value |-> Fmt2(cpp)] >>
      [] level = "bajo" ->
           << Line("Continúa con tus buenos hábitos de consumo"),
              Line("Considera instalar paneles solares para ser aún más eficiente"),
              [text |-> "El consumo por persona es {:.2f} kWh", value |-> Fmt2(cpp)] >>

\* The savings note of lines 74-88: <<>> when none is appended.
NoteText(level) ==
    IF level = "alto"
    THEN "Siguiendo estas recomendaciones, podrías ahorrar {:.2f} kWh, equivalente a ${:.2f} al mes (basado en ${}/kWh)."
    ELSE "Tu consumo está bien, pero si quieres mejorar aún más, siguiendo estas recomendaciones podrías ahorrar {:.2f} kWh, unos ${:.2f} al mes (basado en ${}/kWh)."
Note(level, kwh_excess, price_per_kwh) ==
    [text |-> NoteText(level), kwh |-> Fmt2(kwh_excess),
     money |-> Fmt2(FMul(kwh_excess, price_per_kwh)), price |-> price_per_kwh]
\* Lines 81-88 reporting the excess of one person, not of the household.
NoteForPerPerson(level, excess_per_person, people, price_per_kwh) ==
    IF FGt(excess_per_person, FromInt(0))
    THEN << Note(level, excess_per_person, price_per_kwh) >>
    ELSE <<>>

NoteFor(level, excess_per_person, people, price_per_kwh) ==
    IF FGt(excess_per_person, FromInt(0))
    THEN << Note(level, FMul(excess_per_person, FromInt(people)), price_per_kwh) >>
    ELSE <<>>
Umbral(level, avg, std) == IF level = "alto" THEN FAdd(avg, std) ELSE FSub(avg, std)
SavingsNote(level, cpp, avg, std, people, price_per_kwh) ==
    IF level = "bajo" THEN <<>>
    ELSE NoteFor(level, FSub(cpp, Umbral(level, avg, std)), people, price_per_kwh)

NoBundle(exc) ==
    [exc |-> exc, general |-> <<>>, specific |-> <<>>, consumption_level |-> "",
     statistics |-> [avg |-> Fmt2(NaN), std |-> Fmt2(NaN)]]

\* The returned dict of lines 90-98, cl being what get_consumption_level gave.
Bundle(consumption_per_person, cl, people, price_per_kwh) ==
    IF cl.exc # "none" THEN NoBundle(cl.exc)
    ELSE [exc |-> "none",
          general |-> GeneralRecommendations,
          specific |-> SpecificRecommendations(cl.level, consumption_per_person)
                       \o SavingsNote(cl.level, consumption_per_person, cl.avg, cl.std,
                                      people, price_per_kwh),
          consumption_level |-> cl.level,
          statistics |-> [avg |-> Fmt2(cl.avg), std |-> Fmt2(cl.std)]]

RecommendPerPerson(consumption_per_person, people, price_per_kwh, data) ==
    Bundle(consumption_per_person, GetConsumptionLevel(consumption_per_person, data),
           people, price_per_kwh)

\* The division of line 48 converts people to a float, which CPython does
\* for an int below 2^1024 (at most 309 digits) only.  The model keeps the
\* limit, scaled down to FloatDigits digits so that a message can pass it.
FloatDigits == 5
ConvertsToFloat(n) == Abs(n) < Pow10(FloatDigits)

\* get_recommendations: exc is "none" on return, else the exception raised.
GetRecommendations(consumption, people, price_per_kwh, data) ==
    IF ~ConvertsToFloat(people) THEN NoBundle("OverflowError")
    ELSE IF people = 0 THEN NoBundle("ZeroDivisionError")
    ELSE RecommendPerPerson(FDivInt(consumption, people), people, price_per_kwh, data)

Txt_calefaccion == <<"c", "a", "l", "e", "f", "a", "c", "c", "i", "ó", "n">>
Txt_iluminacion == <<"i", "l", "u", "m", "i", "n", "a", "c", "i", "ó", "n">>
Txt_electrodomesticos ==
    <<"e", "l", "e", "c", "t", "r", "o", "d", "o", "m", "é", "s", "t", "i", "c", "o", "s">>

\* get_additional_recommendations: the base list of lines 105-111 and the
\* tips its three keywords add.
ExtraRecommendations ==
    << Line("Revisa el mantenimiento de tus equipos de calefacción y refrigeración"),
       Line("Considera utilizar reguladores de voltaje para optimizar el consumo"),
       Line("Implementa un sistema de monitoreo para identificar picos de consumo"),
       Line("Asegúrate de que las ventanas estén bien aisladas"),
       Line("Evalúa la posibilidad de instalar sistemas de energía renovable, como paneles solares") >>
Tip_calefaccion ==
    Line("Optimiza el uso de la calefacción, ajusta el termostato y revisa el sistema regularmente.")
Tip_iluminacion ==
    Line("Considera instalar sensores de movimiento y temporizadores para la iluminación.")
Tip_electrodomesticos ==
    Line("Revisa la eficiencia energética de tus electrodomésticos y reemplázalos por modelos más eficientes si es posible.")

\* Lines 112-117 as an if/elif chain: the first keyword found adds its tip.
ExtraForFirstMatch(lowered) ==
    ExtraRecommendations
    \o (IF Contains(lowered, Txt_calefaccion) THEN << Tip_calefaccion >>
        ELSE IF Contains(lowered, Txt_iluminacion) THEN << Tip_iluminacion >>
        ELSE IF Contains(lowered, Txt_electrodomesticos) THEN << Tip_electrodomesticos >>
        ELSE <<>>)

\* Lines 112-117: three independent ifs on details.lower().
ExtraFor(lowered) ==
    ExtraRecommendations
    \o (IF Contains(lowered, Txt_calefaccion) THEN << Tip_calefaccion >> ELSE <<>>)
    \o (IF Contains(lowered, Txt_iluminacion) THEN << Tip_iluminacion >> ELSE <<>>)
    \o (IF Contains(lowered, Txt_electrodomesticos) THEN << Tip_electrodomesticos >>
        ELSE <<>>)
GetAdditionalRecommendations(details) == ExtraFor(Lower(details))

-----------------------------------------------------------------------------
(* Conversation state machine                                              *)

\* A state dict is a function from its keys to their values.
Get(d, key, default) == IF key \in DOMAIN d THEN d[key] ELSE default
Set(d, key, value) == [x \in DOMAIN d \cup {key} |-> IF x = key THEN value ELSE d[x]]
EmptyDict == [x \in {} |-> 0]

Txt_Usuario == <<"U", "s", "u", "a", "r", "i", "o">>
Greetings == { <<"h", "o", "l", "a">>, <<"h", "i">>, <<"h", "o", "l", "i">> }
Affirmatives == { <<"s", "í">>, <<"s", "i">> }
DefaultPrice == 1000

\* The literal both resets assign.
ResetState == [step |-> 0, name |-> Txt_Usuario]

Reply(t) == [text |-> t]
ReplySayHola    == Reply("Di 'hola' para comenzar la conversación.")
ReplyAskName    == Reply("¡Hola! ¿Cuál es tu nombre?")
ReplyAskPeople(name) ==
    [text |-> "Encantado, {}. ¿Cuántas personas hay en tu hogar?", name |-> name]
ReplyPeopleNotPositive ==
    Reply("Por favor, ingresa un número válido de personas (mayor que 0).")
ReplyAskConsumption == Reply("Perfecto. ¿Cuál es el consumo mensual en kWh?")
ReplyPeopleInvalid ==
    Reply("Por favor, ingresa un número válido para el número de personas.")
ReplyConsumptionNotPositive == Reply("El consumo debe ser mayor que 0. Inténtalo de nuevo.")
ReplyAskPrice ==
    Reply("¿Cuál es el costo por kWh en tu región? (Si no lo sabes, puedes dejar el valor predeterminado de $1000 pesos)")
ReplyConsumptionInvalid == Reply("Por favor, ingresa un número válido para el consumo.")
ReplyPriceNotPositive ==
    Reply("El costo por kWh debe ser mayor que 0. Inténtalo de nuevo.")
ReplyPriceInvalid == Reply("Por favor, ingresa un número válido para el costo por kWh.")
ReplyAskDetails ==
    Reply("Por favor, proporciona más detalles sobre tu situación (ej. problemas específicos o áreas a mejorar):")
ReplyClosing ==
    Reply("¡Gracias por utilizar nuestro servicio! Si quieres empezar de nuevo, di 'hola'.")
ReplyError == Reply("Lo siento, ha ocurrido un error en la conversación.")
ReplyNone == Reply("")

Bullets(recs) == [i \in 1..Len(recs) |-> [text |-> "- {}", item |-> recs[i]]]

\* str.capitalize() of a level.
Capitalize(level) ==
    CASE level = "alto" -> "Alto" [] level = "normal" -> "Normal" [] level = "bajo" -> "Bajo"

\* The newline-joined analysis of step 4.
ReplyAnalysis(st, recs) ==
    [lines |->
       << [text |-> "Análisis realizado para {}:", name |-> st["name"]],
          [text |-> "Consumo mensual: {} kWh con {} personas.",
           consumption |-> st["consumption"], people |-> st["people"]],
          [text |-> "Nivel de consumo: {}", level |-> Capitalize(recs.consumption_level)],
          Line("Recomendaciones generales:") >>
       \o Bullets(recs.general)
       \o << Line("Recomendaciones específicas:") >>
       \o Bullets(recs.specific)
       \o << Line("¿Deseas proporcionar más detalles para obtener recomendaciones adicionales? (responde 'sí' o 'no')") >>]

\* The newline-joined extra recommendations of step 6.
ReplyExtra(extra_recs) ==
    [lines |->
       << Line("Basado en los detalles que proporcionaste, aquí tienes algunas recomendaciones adicionales:") >>
       \o Bullets(extra_recs)
       \o << ReplyClosing >>]

\* What a call returns: exc = "none" and the (state, reply) pair, or the
\* exception that leaves it.
Return(st, reply) == [exc |-> "none", state |-> st, reply |-> reply]
Raise(exc) == [exc |-> exc, state |-> EmptyDict, reply |-> ReplyNone]

Step0(st, message) ==
    IF Lower(Strip(message)) \in Greetings
    THEN Return(Set(st, "step", 1), ReplyAskName)
    ELSE Return(st, ReplySayHola)

Named(s1) == Return(Set(s1, "step", 2), ReplyAskPeople(s1["name"]))
Step1(st, message) == Named(Set(st, "name", Strip(message)))

\* Lines 157-162 storing the parsed value and advancing before the sign check.
PeopleParsedKeepsRejected(st, p) ==
    IF ~p.ok THEN Return(st, ReplyPeopleInvalid)
    ELSE IF p.v <= 0
         THEN Return(Set(Set(st, "people", p.v), "step", 3), ReplyPeopleNotPositive)
    ELSE Return(Set(Set(st, "people", p.v), "step", 3), ReplyAskConsumption)

\* Lines 155-164, p being what int(message) gave.
PeopleParsed(st, p) ==
    IF ~p.ok THEN Return(st, ReplyPeopleInvalid)
    ELSE IF p.v <= 0 THEN Return(st, ReplyPeopleNotPositive)
    ELSE Return(Set(Set(st, "people", p.v), "step", 3), ReplyAskConsumption)
Step2(st, message) == PeopleParsed(st, ParseInt(message))

\* Lines 169-174 advancing past the price question.
ConsumptionParsedSkips(st, c) ==
    IF ~c.ok THEN Return(st, ReplyConsumptionInvalid)
    ELSE IF FLe(c.v, FromInt(0)) THEN Return(st, ReplyConsumptionNotPositive)
    ELSE Return(Set(Set(st, "consumption", c.v), "step", 5), ReplyAskPrice)

\* Lines 167-176, c being what float(message) gave.
ConsumptionParsed(st, c) ==
    IF ~c.ok THEN Return(st, ReplyConsumptionInvalid)
    ELSE IF FLe(c.v, FromInt(0)) THEN Return(st, ReplyConsumptionNotPositive)
    ELSE Return(Set(Set(st, "consumption", c.v), "step", 4), ReplyAskPrice)
Step3(st, message) == ConsumptionParsed(st, ParseFloat(message))

\* Lines 186-197, s5 being the state with the price stored and step 5.
\* StatisticsError is a ValueError, so the except clause of line 198 catches
\* it after the state was advanced; the other exceptions leave the call.
Analysed(s5, recs) ==
    CASE recs.exc = "StatisticsError" -> Return(s5, ReplyPriceInvalid)
      [] recs.exc # "none" -> Raise(recs.exc)
      [] "name" \notin DOMAIN s5 -> Raise("KeyError")
      [] OTHER -> Return(s5, ReplyAnalysis(s5, recs))
Analyse(s5, data) ==
    IF "consumption" \notin DOMAIN s5 \/ "people" \notin DOMAIN s5
    THEN Raise("KeyError")
    ELSE Analysed(s5, GetRecommendations(s5["consumption"], s5["people"],
                                         s5["price_per_kwh"], data))
\* Lines 181-199, p being the parsed or default price.
PriceParsed(st, p, data) ==
    IF ~p.ok THEN Return(st, ReplyPriceInvalid)
    ELSE IF FLe(p.v, FromInt(0)) THEN Return(st, ReplyPriceNotPositive)
    ELSE Analyse(Set(Set(st, "price_per_kwh", p.v), "step", 5), data)

\* Line 180 without the default: an empty message is parsed like any other.
PriceOfNoDefault(message) == ParseFloat(message)

\* Line 180.
PriceOf(message) ==
    IF Strip(message) # <<>> THEN ParseFloat(message)
    ELSE [ok |-> TRUE, v |-> FromInt(DefaultPrice)]
Step4(st, message, data) == PriceParsed(st, PriceOf(message), data)

\* Lines 202-204 handing on a state that holds the step alone.
Step5Forgets(st, message) ==
    IF Lower(Strip(message)) \in Affirmatives
    THEN Return([step |-> 6], ReplyAskDetails)
    ELSE Return(ResetState, ReplyClosing)

Step5(st, message) ==
    IF Lower(Strip(message)) \in Affirmatives
    THEN Return(Set(st, "step", 6), ReplyAskDetails)
    ELSE Return(ResetState, ReplyClosing)

\* Lines 211-216 resetting the step in place instead of assigning the literal.
DetailedKeepsFields(s6) ==
    Return(Set(s6, "step", 0), ReplyExtra(GetAdditionalRecommendations(s6["details"])))

\* Lines 211-216, s6 being the state with the details stored.
Detailed(s6) == Return(ResetState, ReplyExtra(GetAdditionalRecommendations(s6["details"])))
Step6(st, message) == Detailed(Set(st, "details", Strip(message)))

\* The dispatch of process_message restarting the dialogue on an unknown step.
DispatchRecovers(step, st, message, data) ==
    CASE step = 0 -> Step0(st, message)
      [] step = 1 -> Step1(st, message)
      [] step = 2 -> Step2(st, message)
      [] step = 3 -> Step3(st, message)
      [] step = 4 -> Step4(st, message, data)
      [] step = 5 -> Step5(st, message)
      [] step = 6 -> Step6(st, message)
      [] OTHER    -> Return(ResetState, ReplyError)

\* The if/elif chain of process_message.
Dispatch(step, st, message, data) ==
    CASE step = 0 -> Step0(st, message)
      [] step = 1 -> Step1(st, message)
      [] step = 2 -> Step2(st, message)
      [] step = 3 -> Step3(st, message)
      [] step = 4 -> Step4(st, message, data)
      [] step = 5 -> Step5(st, message)
      [] step = 6 -> Step6(st, message)
      [] OTHER    -> Return(st, ReplyError)

\* Line 139 without the default: a state that has no step is an unknown step.
ProcessMessageNoDefault(st, message, data) ==
    Dispatch(Get(st, "step", -1), st, message, data)

\* process_message
ProcessMessage(st, message, data) == Dispatch(Get(st, "step", 0), st, message, data)

\* chat_endpoint: the defaults of payload.get, then process_message.
ChatEndpoint(payload, data) ==
    ProcessMessage(Get(payload, "state", [step |-> 0]), Get(payload, "message", <<>>), data)

-----------------------------------------------------------------------------
(* Callers                                                                 *)

\* A caller that holds no state yet sends a payload without the state key.
Absent == [absent |-> TRUE]
Payload(st, message) ==
    IF st = Absent THEN [message |-> message] ELSE [state |-> st, message |-> message]

\* Historical datasets (People, Consumption).  Per-person values of the first:
\* 100, 200, 300 (mean 200, stdev 100); of the second, which has a record
\* with People = 0: 50, 50, 50, 250 (mean 100, stdev 100).
Datasets ==
    { << [People |-> 2, Consumption |-> 200], [People |-> 1, Consumption |-> 200],
         [People |-> 3, Consumption |-> 900] >>,
      << [People |-> 2, Consumption |-> 100], [People |-> 0, Consumption |-> 999],
         [People |-> 1, Consumption |-> 50], [People |-> 4, Consumption |-> 200],
         [People |-> 1, Consumption |-> 250] >> }

M_empty == <<>>
M_space == <<" ">>
M_hola  == <<"h", "o", "l", "a">>
M_Hola  == <<" ", "H", "o", "l", "a", " ">>
M_hi    == <<"h", "i">>
M_Ana   == <<" ", "A", "n", "a", " ">>
M_4     == <<"4">>
M_2     == <<" ", "2">>
M_1     == <<"+", "1">>
M_0     == <<"0">>
M_big   == <<"1">> \o [i \in 1..FloatDigits |-> "0"]
M_neg3  == <<"-", "3">>
M_2p5   == <<"2", ".", "5">>
M_300   == <<"3", "0", "0">>
M_900   == <<"9", "0", "0">>
M_1e2   == <<"1", "e", "2">>
M_inf   == <<"i", "n", "f">>
M_ninf  == <<"-", "I", "n", "f">>
M_nan   == <<"n", "a", "n">>
M_si    == <<"s", "í">>
M_SI    == <<" ", "S", "I">>
M_no    == <<"n", "o">>
M_calef == <<"M", "i", " ", "C", "a", "l", "e", "f", "a", "c", "c", "i", "ó", "n">>
M_elec  == Txt_electrodomesticos \o <<" ", "e", " ">> \o Txt_iluminacion

\* The messages a caller tries at each step.
Inputs(step) ==
    CASE step = 0 -> {M_hola, M_Hola, M_hi, M_Ana, M_empty, M_4}
      [] step = 1 -> {M_Ana, M_empty, M_4}
      [] step = 2 -> {M_4, M_2, M_1, M_0, M_neg3, M_2p5, M_empty, M_space, M_hola, M_inf,
                      M_big}
      [] step = 3 -> {M_300, M_900, M_1e2, M_2p5, M_inf, M_nan, M_ninf, M_0, M_neg3,
                      M_empty, M_no}
      [] step = 4 -> {M_empty, M_space, M_2p5, M_1e2, M_0, M_neg3, M_nan, M_inf, M_no}
      [] step = 5 -> {M_si, M_SI, M_no, M_empty, M_hola}
      [] step = 6 -> {M_calef, M_elec, M_empty, M_no}
      [] OTHER    -> {M_hola, M_empty}

StepOf(st) == IF st = Absent THEN 0 ELSE Get(st, "step", 0)

NoTurn(st) == [pre |-> st, msg |-> <<>>, exc |-> "init", reply |-> ReplyNone]
NoCall == [fn |-> "none"]

\* A response applied to the one server-held session every caller is served
\* from, instead of to the state the caller posted.
DeliverToSession(c, message, r) ==
    /\ state' = [x \in DOMAIN state |-> IF r.exc = "none" THEN r.state ELSE state[x]]
    /\ last'  = [last EXCEPT ![c] = [pre |-> state[c], msg |-> message,
                                     exc |-> r.exc, reply |-> r.reply]]
    /\ UNCHANGED energy_data

\* The caller keeps the state of the response r; after a failed request it
\* still holds the state it sent.
Deliver(c, message, r) ==
    /\ state' = [state EXCEPT ![c] = IF r.exc = "none" THEN r.state ELSE @]
    /\ last'  = [last EXCEPT ![c] = [pre |-> state[c], msg |-> message,
                                     exc |-> r.exc, reply |-> r.reply]]
    /\ UNCHANGED energy_data

\* An exchange answered from the state of conversation "a", as a server that
\* kept one session would, instead of from the state the caller posted.
ExchangeFromSession(c, message) ==
    Deliver(c, message, ChatEndpoint(Payload(state["a"], message), energy_data))

\* One request/response exchange of conversation c: the caller posts its
\* state and a message to chat_endpoint.
Exchange(c, message) ==
    Deliver(c, message, ChatEndpoint(Payload(state[c], message), energy_data))

Turn(c, message) ==
    /\ Exchange(c, message)
    /\ UNCHANGED <<hist, pc, rec, prev>>

NoLog == [from |-> Absent, msgs |-> <<>>]

InitWith(starts) ==
    /\ energy_data \in Datasets
    /\ state \in starts
    /\ last = [c \in DOMAIN state |-> NoTurn(state[c])]
    /\ hist = [c \in DOMAIN state |-> NoLog]
    /\ pc = 0
    /\ rec = NoCall
    /\ prev = NoCall

\* One conversation that begins with the fresh state {step: 0}.
Init == InitWith({[c \in {"a"} |-> [step |-> 0]]})
Next == \E c \in DOMAIN state : \E m \in Inputs(StepOf(state[c])) : Turn(c, m)
Spec == Init /\ [][Next]_vars

\* One conversation that begins with whatever state its caller supplies.
CallerStates ==
    { [step |-> 0], Absent, EmptyDict, ResetState,
      [step |-> 7, name |-> Strip(M_Ana)],
      [step |-> -1],
      [step |-> 2, name |-> Strip(M_Ana), details |-> M_no],
      [step |-> 4, name |-> Strip(M_Ana)],
      [step |-> 4, name |-> Strip(M_Ana), people |-> 0, consumption |-> FromInt(300)],
      [step |-> 4, people |-> 2, consumption |-> FromInt(300)],
      [step |-> 6] }
InitCaller == InitWith({[c \in {"a"} |-> s] : s \in CallerStates})
SpecCaller == InitCaller /\ [][Next]_vars

\* Two conversations whose turns interleave; each logs where it began and
\* what it sent, MaxTurns messages at most.
MaxTurns == 3
ConcStarts ==
    { [step |-> 0],
      [step |-> 3, name |-> Strip(M_Ana), people |-> 2],
      [step |-> 4, name |-> Strip(M_Ana), people |-> 2, consumption |-> FromInt(300)] }
ConcInputs(step) ==
    CASE step = 0 -> {M_hola, M_empty}
      [] step = 1 -> {M_Ana}
      [] step = 2 -> {M_2, M_0}
      [] step = 3 -> {M_300, M_900}
      [] step = 4 -> {M_empty, M_2p5, M_0}
      [] step = 5 -> {M_no, M_si}
      [] step = 6 -> {M_calef}
      [] OTHER    -> {}
LoggedTurn(c, message) ==
    /\ Len(hist[c].msgs) < MaxTurns
    /\ Exchange(c, message)
    /\ hist' = [hist EXCEPT ![c].msgs = Append(@, message)]
    /\ UNCHANGED <<pc, rec, prev>>
InitConc ==
    /\ energy_data \in Datasets
    /\ state \in [{"a", "b"} -> ConcStarts]
    /\ last = [c \in DOMAIN state |-> NoTurn(state[c])]
    /\ hist = [c \in DOMAIN state |-> [from |-> state[c], msgs |-> <<>>]]
    /\ pc = 0
    /\ rec = NoCall
    /\ prev = NoCall
NextConc == \E c \in DOMAIN state : \E m \in ConcInputs(StepOf(state[c])) : LoggedTurn(c, m)
SpecConc == InitConc /\ [][NextConc]_vars

\* Direct calls of the classifier and of the recommendation generator, two
\* in a row at most: rec is the later call, prev the earlier.
MaxKwh == 8
MaxPeople == 3
Specials == {Inf, NaN}
PerPersonInputs ==
    {Fin(50 * k, q) : k \in 0..MaxKwh, q \in 1..MaxPeople} \cup Specials \cup {NInf}
ConsumptionInputs == {FromInt(50 * k) : k \in 0..MaxKwh} \cup Specials
PeopleInputs == -1..MaxPeople
PriceInputs == {FromInt(DefaultPrice), Fin(5, 2), FromInt(0)}

Classify(x) ==
    /\ prev = NoCall
    /\ prev' = rec
    /\ rec' = [fn |-> "get_consumption_level", x |-> x,
               out |-> GetConsumptionLevel(x, energy_data)]
    /\ UNCHANGED <<energy_data, state, last, hist, pc>>
Recommend(consumption, people, price_per_kwh) ==
    /\ prev = NoCall
    /\ prev' = rec
    /\ rec' = [fn |-> "get_recommendations", consumption |-> consumption,
               people |-> people, price_per_kwh |-> price_per_kwh,
               out |-> GetRecommendations(consumption, people, price_per_kwh, energy_data)]
    /\ UNCHANGED <<energy_data, state, last, hist, pc>>
NextRec ==
    \/ \E x \in PerPersonInputs : Classify(x)
    \/ \E c \in ConsumptionInputs, p \in PeopleInputs, price \in PriceInputs :
          Recommend(c, p, price)
SpecRec == Init /\ [][NextRec]_vars

\* Direct calls of the three functions on datasets of every kind: the
\* historical ones, one with records of People <= 0 among three valid ones
\* (per-person values 100, 200, 300), and datasets that yield fewer than two
\* valid records (none at all, one, two invalid, one valid and one invalid).
FilteredDataset ==
    << [People |-> 2, Consumption |-> 200], [People |-> -1, Consumption |-> 500],
       [People |-> 1, Consumption |-> 200], [People |-> 0, Consumption |-> 5],
       [People |-> 3, Consumption |-> 900] >>
SparseDatasets ==
    { <<>>,
      << [People |-> 2, Consumption |-> 200] >>,
      << [People |-> 0, Consumption |-> 999], [People |-> -2, Consumption |-> 100] >>,
      << [People |-> 0, Consumption |-> 999], [People |-> 1, Consumption |-> 250] >> }

D_mis ==
    <<"M", "i", "s", " ", "e", "l", "e", "c", "t", "r", "o", "d", "o", "m",
      "é", "s", "t", "i", "c", "o", "s", " ", "c", "o", "n", "s", "u", "m",
      "e", "n", " ", "m", "u", "c", "h", "o">>
D_all ==
    <<"I", "L", "U", "M", "I", "N", "A", "C", "I", "Ó", "N", ",", " ", "c",
      "a", "l", "e", "f", "a", "c", "c", "i", "ó", "n", " ", "y", " ", "E",
      "l", "e", "c", "t", "r", "o", "d", "o", "m", "é", "s", "t", "i", "c",
      "o", "s">>
D_twice ==
    <<"c", "a", "l", "e", "f", "a", "c", "c", "i", "ó", "n", ",", " ", "c",
      "a", "l", "e", "f", "a", "c", "c", "i", "ó", "n">>
D_luces == <<"l", "u", "c", "e", "s">>
D_aire ==
    <<"A", "i", "r", "e", " ", "a", "c", "o", "n", "d", "i", "c", "i", "o",
      "n", "a", "d", "o">>
D_pc ==
    <<"l", "a", " ", "c", "o", "m", "p", "u", "t", "a", "d", "o", "r", "a">>
DetailsInputs ==
    {M_empty, M_no, M_calef, M_elec, D_mis, D_all, D_twice, D_luces, D_aire, D_pc}

Advise(details) ==
    /\ prev = NoCall
    /\ prev' = rec
    /\ rec' = [fn |-> "get_additional_recommendations", details |-> details,
               out |-> GetAdditionalRecommendations(details)]
    /\ UNCHANGED <<energy_data, state, last, hist, pc>>

InitCalls ==
    /\ energy_data \in Datasets \cup {FilteredDataset} \cup SparseDatasets
    /\ state = [c \in {"a"} |-> [step |-> 0]]
    /\ last = [c \in DOMAIN state |-> NoTurn(state[c])]
    /\ hist = [c \in DOMAIN state |-> NoLog]
    /\ pc = 0
    /\ rec = NoCall
    /\ prev = NoCall
NextCalls ==
    \/ \E x \in {FromInt(0), FromInt(100), FromInt(250), NaN} : Classify(x)
    \/ \E c \in {FromInt(0), FromInt(300)}, p \in 0..2 :
          Recommend(c, p, FromInt(DefaultPrice))
    \/ \E d \in DetailsInputs : Advise(d)
SpecCalls == InitCalls /\ [][NextCalls]_vars

\* The scripted dialogue of one conversation from {step: 0}: a greeting, a
\* name, a positive integer, a positive consumption, an empty price, "no".
Scripted(at, messages) ==
    /\ pc = at
    /\ \E m \in messages : Exchange("a", m)
    /\ pc' = at + 1
    /\ UNCHANGED <<hist, rec, prev>>
SayGreeting    == Scripted(0, {M_hola, M_Hola, M_hi})
SayName        == Scripted(1, {M_Ana, M_empty, M_4})
SayPeople      == Scripted(2, {M_4, M_2, M_1})
SayConsumption == Scripted(3, {M_300, M_900, M_1e2, M_2p5})
SayEmptyPrice  == Scripted(4, {M_empty})
SayNo          == Scripted(5, {M_no})
NextScenario ==
    SayGreeting \/ SayName \/ SayPeople \/ SayConsumption \/ SayEmptyPrice \/ SayNo
SpecScenario == Init /\ [][NextScenario]_vars

-----------------------------------------------------------------------------
(* Properties                                                              *)

Turned(c) == last[c].exc # "init"
Returned(c) == last[c].exc = "none"
PreStep(c) == StepOf(last[c].pre)

\* The input a numeric step turns down: a message its parser refuses or one
\* that parses to a value <= 0; at step 4 a blank message is not turned down.
Rejected(step, message) ==
    CASE step = 2 -> ~ParseInt(message).ok \/ ParseInt(message).v <= 0
      [] step = 3 -> ~ParseFloat(message).ok \/ FLe(ParseFloat(message).v, FromInt(0))
      [] step = 4 -> /\ Strip(message) # <<>>
                     /\ ~ParseFloat(message).ok \/ FLe(ParseFloat(message).v, FromInt(0))
      [] OTHER    -> FALSE

ValidationReplies(step) ==
    CASE step = 2 -> {ReplyPeopleInvalid, ReplyPeopleNotPositive}
      [] step = 3 -> {ReplyConsumptionInvalid, ReplyConsumptionNotPositive}
      [] step = 4 -> {ReplyPriceInvalid, ReplyPriceNotPositive}
      [] OTHER    -> {}

\* C1: at step 2, 3 or 4 a message that does not parse or parses to a value
\* <= 0 (a blank message at step 4 excepted) gets a validation reply and the
\* caller's state back unchanged, step and every other field.
C1_InvalidInputKeepsState ==
    \A c \in DOMAIN state :
        (Turned(c) /\ PreStep(c) \in 2..4 /\ Rejected(PreStep(c), last[c].msg))
        => /\ Returned(c)
           /\ state[c] = last[c].pre
           /\ last[c].reply \in ValidationReplies(PreStep(c))

C1_Witness ==
    /\ PreStep("a") = 2
    /\ last["a"].msg = M_neg3
    /\ Returned("a")
    /\ state["a"] = last["a"].pre
    /\ last["a"].reply = ReplyPeopleNotPositive

\* C2 as stated: a turn on a state whose step is outside 0..6 fails with
\* ProtocolError instead of completing with a (state, reply) pair.
C2_UnknownStepFails ==
    \A c \in DOMAIN state :
        (Turned(c) /\ PreStep(c) \notin 0..6) => last[c].exc = "ProtocolError"

\* C2 amended: a turn on a state whose step is outside 0..6 completes with
\* the fixed error reply and the state unchanged, so the step stays outside
\* 0..6 and no later turn on it proceeds with the dialogue.
C2_UnknownStepStuck ==
    \A c \in DOMAIN state :
        (Turned(c) /\ PreStep(c) \notin 0..6)
        => /\ Returned(c)
           /\ last[c].reply = ReplyError
           /\ state[c] = last[c].pre
           /\ StepOf(state[c]) \notin 0..6

C2_Witness ==
    /\ Turned("a") /\ PreStep("a") = 7
    /\ Returned("a") /\ last["a"].reply = ReplyError
    /\ StepOf(state["a"]) = 7

\* The input a step accepts.
Accepted(step, message) ==
    CASE step = 0 -> Lower(Strip(message)) \in Greetings
      [] step = 1 -> TRUE
      [] step \in 2..4 -> ~Rejected(step, message)
      [] step = 5 -> Lower(Strip(message)) \in Affirmatives
      [] OTHER    -> FALSE

\* C3: a completed turn from a step in 0..6 leaves the step where it was
\* (steps 0, 2, 3, 4 on rejected input only), moves it to step + 1 (steps
\* 0..5 on accepted input) or to 0 (step 5 on a non-affirmative message, step
\* 6 on any message): nothing is skipped and nothing else goes back.
C3_LinearProtocol ==
    \A c \in DOMAIN state :
        (Returned(c) /\ PreStep(c) \in 0..6)
        => LET s == PreStep(c)
               t == StepOf(state[c])
               ok == Accepted(s, last[c].msg)
           IN  /\ t \in {s, s + 1, 0}
               /\ (s \in 0..5 /\ ok) => t = s + 1
               /\ (s \in {0, 2, 3, 4} /\ ~ok) => t = s
               /\ (s = 5 /\ ~ok) => t = 0
               /\ s = 6 => t = 0
               /\ (t = s /\ s # 0) => (s \in {2, 3, 4} /\ ~ok)
               /\ (t = 0 /\ s # 0) => (s = 6 \/ (s = 5 /\ ~ok))

C3_Witness ==
    /\ Returned("a") /\ PreStep("a") = 5
    /\ last["a"].msg = M_si
    /\ StepOf(state["a"]) = 6
    /\ "price_per_kwh" \in DOMAIN state["a"]

IsReset(c) ==
    /\ Returned(c)
    /\ \/ PreStep(c) = 6
       \/ PreStep(c) = 5 /\ Lower(Strip(last[c].msg)) \notin Affirmatives

\* C4: both resets return exactly {step: 0, name: "Usuario"}: no people,
\* consumption, price_per_kwh or details, and not the user's own name.
C4_ResetState ==
    \A c \in DOMAIN state : IsReset(c) => state[c] = ResetState

C4_Witness ==
    /\ IsReset("a") /\ PreStep("a") = 6
    /\ {"name", "people", "consumption", "price_per_kwh"} \subseteq DOMAIN last["a"].pre
    /\ last["a"].pre["name"] = Strip(M_Ana)
    /\ state["a"] = ResetState

ScenarioSteps ==
    /\ pc \in 1..5 => (Returned("a") /\ StepOf(state["a"]) = pc)
    /\ pc = 5 => state["a"]["price_per_kwh"] = FromInt(DefaultPrice)
    /\ pc = 6 => (Returned("a") /\ last["a"].reply = ReplyClosing)

PositiveReal(x) == IsFinite(x) /\ FGt(x, FromInt(0))

\* C6: every state reached from {step: 0} has a step in 0..6, a people value
\* (when present) that is a positive integer, and consumption and
\* price_per_kwh values (when present) that are finite and > 0.
C6_DataModel ==
    \A c \in DOMAIN state :
        LET st == state[c]
        IN  /\ "step" \in DOMAIN st /\ st["step"] \in 0..6
            /\ "people" \in DOMAIN st => st["people"] > 0
            /\ "consumption" \in DOMAIN st => PositiveReal(st["consumption"])
            /\ "price_per_kwh" \in DOMAIN st => PositiveReal(st["price_per_kwh"])

\* C7: two turns that were given equal (state, message) values returned
\* equal (new_state, reply) values, whatever turns came before or between.
C7_Determinism ==
    \A c1 \in DOMAIN state : \A c2 \in DOMAIN state :
        (/\ Turned(c1) /\ Turned(c2)
         /\ last[c1].pre = last[c2].pre
         /\ last[c1].msg = last[c2].msg)
        => /\ last[c1].exc = last[c2].exc
           /\ last[c1].reply = last[c2].reply
           /\ state[c1] = state[c2]

C7_Witness ==
    /\ Returned("a") /\ Returned("b")
    /\ PreStep("a") = 4 /\ last["a"].pre = last["b"].pre
    /\ last["a"].msg = M_empty /\ last["b"].msg = M_empty
    /\ hist["a"].from # hist["b"].from
    /\ state["a"] = state["b"] /\ StepOf(state["a"]) = 5

\* A conversation's turns processed alone, from the state it began with.
AloneAfter(before, r) ==
    [state |-> IF r.exc = "none" THEN r.state ELSE before, exc |-> r.exc, reply |-> r.reply]
AloneTurn(before, message, data) ==
    AloneAfter(before, ChatEndpoint(Payload(before, message), data))
RECURSIVE Alone(_, _, _)
Alone(st, msgs, data) ==
    IF msgs = <<>> THEN [state |-> st, exc |-> "init", reply |-> ReplyNone]
    ELSE AloneTurn(Alone(st, SubSeq(msgs, 1, Len(msgs) - 1), data).state,
                   msgs[Len(msgs)], data)

Isolated ==
    \A c \in DOMAIN state :
        LET alone == Alone(hist[c].from, hist[c].msgs, energy_data)
        IN  /\ state[c] = alone.state
            /\ last[c].exc = alone.exc
            /\ last[c].reply = alone.reply

\* C8: in every interleaving each conversation's state and reply are what
\* its own turns, processed alone, produce, and no turn changes the dataset.
C8_NoSharedState == []Isolated /\ [][energy_data' = energy_data]_vars

C8_Witness ==
    /\ Len(hist["a"].msgs) = MaxTurns /\ Len(hist["b"].msgs) = MaxTurns
    /\ StepOf(hist["a"].from) = 3 /\ StepOf(state["a"]) = 0
    /\ StepOf(hist["b"].from) = 0 /\ StepOf(state["b"]) = 3
    /\ last["a"].reply = ReplyClosing

Classified == rec.fn = "get_consumption_level" /\ rec.out.exc = "none"

\* C9: the level is bajo iff per_person < mean - stddev, alto iff
\* per_person > mean + stddev, and normal otherwise; a value equal to either
\* boundary is normal.
C9_Boundaries ==
    Classified =>
        LET hi == FAdd(rec.out.avg, rec.out.std)
            lo == FSub(rec.out.avg, rec.out.std)
        IN  /\ rec.out.level = "bajo" <=> FLt(rec.x, lo)
            /\ rec.out.level = "alto" <=> FGt(rec.x, hi)
            /\ rec.out.level = "normal" <=> (~FLt(rec.x, lo) /\ ~FGt(rec.x, hi))
            /\ (FEq(rec.x, hi) \/ FEq(rec.x, lo)) => rec.out.level = "normal"

C9_Witness ==
    /\ Classified /\ prev.fn = "get_consumption_level"
    /\ FEq(rec.x, FAdd(rec.out.avg, rec.out.std)) /\ rec.out.level = "normal"
    /\ FEq(prev.x, FSub(prev.out.avg, prev.out.std)) /\ prev.out.level = "normal"
    /\ FGt(rec.out.std, FromInt(0))

Tier(level) == CASE level = "bajo" -> 0 [] level = "normal" -> 1 [] level = "alto" -> 2

Recommended(call) ==
    call.fn = "get_recommendations" /\ call.out.exc = "none"

\* C10: with the same people > 0 and the same dataset, consumptions c1 <= c2
\* are classified in that order: tier(c1) <= tier(c2) for bajo < normal < alto.
C10_Monotonic ==
    \A x \in {prev, rec} : \A y \in {prev, rec} :
        (/\ Recommended(x) /\ Recommended(y)
         /\ x.people > 0 /\ x.people = y.people
         /\ FLe(x.consumption, y.consumption))
        => Tier(x.out.consumption_level) <= Tier(y.out.consumption_level)

C10_Witness ==
    /\ Recommended(prev) /\ Recommended(rec)
    /\ prev.people = 2 /\ rec.people = 2
    /\ FLt(prev.consumption, rec.consumption)
    /\ prev.out.consumption_level = "bajo" /\ rec.out.consumption_level = "alto"

\* The savings lines of a specific list: the positions that report figures.
SavingsLines(specific) == {i \in 1..Len(specific) : "kwh" \in DOMAIN specific[i]}

\* The threshold and the excess per person of a call, from the statistics of
\* the per-person values xs of the dataset.
Threshold(level, xs) ==
    IF level = "alto" THEN FAdd(Mean(xs), Stdev(xs)) ELSE FSub(Mean(xs), Stdev(xs))
ExcessPerPerson(call, xs) ==
    FSub(FDivInt(call.consumption, call.people), Threshold(call.out.consumption_level, xs))

SavingsAsComputed(specific, excess, people, price) ==
    /\ SavingsLines(specific) # {} <=> FGt(excess, FromInt(0))
    /\ \A i \in SavingsLines(specific) :
          /\ i = Len(specific)
          /\ specific[i].kwh = Fmt2(FMul(excess, FromInt(people)))
          /\ specific[i].money = Fmt2(FMul(FMul(excess, FromInt(people)), price))
          /\ specific[i].price = price

\* C11: for the normal and alto levels, with threshold = mean + stddev (alto)
\* or mean - stddev (normal) and excess = per_person - threshold, the specific
\* list ends with a savings line iff excess > 0, and that line reports
\* excess * people kWh and excess * people * price_per_kwh, to two decimals.
C11_SavingsLine ==
    (Recommended(rec) /\ rec.out.consumption_level \in {"normal", "alto"})
    => SavingsAsComputed(rec.out.specific,
                         ExcessPerPerson(rec, ConsumptionsPerPerson(energy_data)),
                         rec.people, rec.price_per_kwh)

C11_Witness ==
    /\ Recommended(rec) /\ rec.out.consumption_level = "normal"
    /\ rec.people = 2 /\ rec.price_per_kwh = Fin(5, 2)
    /\ SavingsLines(rec.out.specific) = {4}
    /\ rec.out.specific[4].kwh = Fmt2(FromInt(150))
    /\ rec.out.specific[4].money = Fmt2(FromInt(375))
    /\ Recommended(prev) /\ prev.out.consumption_level = "normal"
    /\ SavingsLines(prev.out.specific) = {}
    /\ IsFinite(prev.consumption)

\* C12: a call of the recommendation generator with people <= 0 or
\* price_per_kwh <= 0 fails (InvalidInput, whatever the error is called in
\* the code) and returns no bundle.
C12_RejectsInvalid ==
    (rec.fn = "get_recommendations"
     /\ (rec.people <= 0 \/ FLe(rec.price_per_kwh, FromInt(0))))
    => (rec.out.exc # "none" /\ rec.out.specific = <<>>)

\* The valid records of a dataset and their statistics, from the definitions
\* of the mean and of the sample standard deviation.
ValidIdx(data) == {i \in 1..Len(data) : data[i].People > 0}
RECURSIVE SumOver(_, _)
SumOver(data, S) ==
    IF S = {} THEN FromInt(0)
    ELSE LET i == CHOOSE j \in S : TRUE
         IN  FAdd(Fin(data[i].Consumption, data[i].People), SumOver(data, S \ {i}))
RECURSIVE SquaresOver(_, _, _)
SquaresOver(data, S, m) ==
    IF S = {} THEN FromInt(0)
    ELSE LET i == CHOOSE j \in S : TRUE
         IN  FAdd(Square(FSub(Fin(data[i].Consumption, data[i].People), m)),
                  SquaresOver(data, S \ {i}, m))
StatisticsOver(out, data, S) ==
    /\ FEq(out.avg, FDivInt(SumOver(data, S), Cardinality(S)))
    /\ FLe(FromInt(0), out.std)
    /\ FEq(Square(out.std), FDivInt(SquaresOver(data, S, out.avg), Cardinality(S) - 1))
Sparse(data) == Cardinality(ValidIdx(data)) < 2

\* C13: the mean and the standard deviation are those of the records with
\* People > 0 alone; when fewer than two records are valid the classifier
\* raises an error and returns no level, and the recommendation generator
\* fails with the classifier's error and returns no bundle.
C13_ValidRecordsOnly ==
    /\ rec.fn = "get_consumption_level" =>
          IF Sparse(energy_data)
          THEN rec.out.exc = "StatisticsError" /\ rec.out.level = ""
          ELSE /\ rec.out.exc = "none"
               /\ StatisticsOver(rec.out, energy_data, ValidIdx(energy_data))
    /\ (rec.fn = "get_recommendations" /\ rec.people # 0) =>
          /\ rec.out.exc
               = GetConsumptionLevel(FDivInt(rec.consumption, rec.people), energy_data).exc
          /\ Sparse(energy_data) =>
                /\ rec.out.exc = "StatisticsError"
                /\ rec.out.consumption_level = "" /\ rec.out.specific = <<>>

C13_Witness ==
    /\ Len(energy_data) = 2 /\ Cardinality(ValidIdx(energy_data)) = 1
    /\ prev.fn = "get_consumption_level" /\ prev.out.exc = "StatisticsError"
    /\ rec.fn = "get_recommendations" /\ rec.people = 2
    /\ rec.out.exc = "StatisticsError"

Advised == rec.fn = "get_additional_recommendations"
Matched(details, words) == {k \in 1..Len(words) : Contains(Lower(details), words[k])}
Keywords == <<Txt_calefaccion, Txt_iluminacion, Txt_electrodomesticos>>
KeywordTips == <<Tip_calefaccion, Tip_iluminacion, Tip_electrodomesticos>>

\* The six categories of the claim: the three keywords of the code and the
\* usual words for computing equipment, air conditioning and lights.
ClaimedKeywords ==
    Keywords \o << <<"c", "o", "m", "p", "u", "t", "a", "d", "o", "r", "a">>,
                   <<"a", "i", "r", "e", " ", "a", "c", "o", "n", "d", "i", "c", "i", "o", "n", "a", "d", "o">>,
                   <<"l", "u", "c", "e", "s">> >>

ExtraOf(tips) == SubSeq(tips, Len(ExtraRecommendations) + 1, Len(tips))
BaseThenOnePerMatch(tips, matched) ==
    /\ Len(tips) = Len(ExtraRecommendations) + Cardinality(matched)
    /\ SubSeq(tips, 1, Len(ExtraRecommendations)) = ExtraRecommendations

\* C14 as stated: the five base tips, then one tip for each of the six
\* categories (heating, lighting, appliances, computing equipment, air
\* conditioning, lights) found in the details.
C14_SixCategories ==
    Advised => BaseThenOnePerMatch(rec.out, Matched(rec.details, ClaimedKeywords))

\* C14 amended: the five base tips in order, then exactly one tip for each of
\* the three keywords calefacción, iluminación, electrodomésticos found in
\* the lowercased details, in that order whatever their order or number in
\* the details; no keyword, the five base tips alone.
C14_ThreeKeywords ==
    Advised =>
        /\ BaseThenOnePerMatch(rec.out, Matched(rec.details, Keywords))
        /\ \A k \in 1..Len(Keywords) :
              k \in Matched(rec.details, Keywords)
              <=> \E i \in 1..Len(ExtraOf(rec.out)) : ExtraOf(rec.out)[i] = KeywordTips[k]
        /\ \A i \in 1..Len(ExtraOf(rec.out)) : \A j \in 1..Len(ExtraOf(rec.out)) :
              i < j => \E k1 \in 1..Len(Keywords) : \E k2 \in 1..Len(Keywords) :
                          /\ k1 < k2
                          /\ ExtraOf(rec.out)[i] = KeywordTips[k1]
                          /\ ExtraOf(rec.out)[j] = KeywordTips[k2]
        /\ Matched(rec.details, Keywords) = {} => rec.out = ExtraRecommendations

C14_Witness ==
    /\ Advised /\ rec.details = M_elec
    /\ ExtraOf(rec.out) = <<Tip_iluminacion, Tip_electrodomesticos>>
    /\ prev.fn = "get_additional_recommendations" /\ prev.details = D_luces
    /\ prev.out = ExtraRecommendations

\* What the same message gets on the state {step: 0}.
OnStepZero(message) == ChatEndpoint(Payload([step |-> 0], message), energy_data)

\* C15: a turn whose state is missing from the payload or is the empty
\* dict gets what the same message gets on {step: 0}: the same reply and
\* the same step afterwards; a greeting leaves the state {step: 1}, any other
\* message gets the prompt to say hola and leaves the conversation at step 0.
C15_EmptyStateIsStepZero ==
    \A c \in DOMAIN state :
        (Turned(c) /\ last[c].pre \in {Absent, EmptyDict})
        => /\ Returned(c)
           /\ last[c].reply = OnStepZero(last[c].msg).reply
           /\ StepOf(state[c]) = StepOf(OnStepZero(last[c].msg).state)
           /\ IF Lower(Strip(last[c].msg)) \in Greetings
              THEN last[c].reply = ReplyAskName /\ state[c] = [step |-> 1]
              ELSE last[c].reply = ReplySayHola /\ StepOf(state[c]) = 0

C15_Witness ==
    /\ Turned("a") /\ last["a"].pre = EmptyDict
    /\ last["a"].msg = M_Hola
    /\ last["a"].reply = ReplyAskName
    /\ state["a"] = [step |-> 1]

\* C16: in every state reached from {step: 0} (the reset state among them)
\* every turn returns a (state, reply) pair, none raises; and a state at
\* step 4 holds a name, a people value > 0 and a consumption.
C16_TurnsReturn ==
    \A c \in DOMAIN state :
        /\ Turned(c) => Returned(c)
        /\ StepOf(state[c]) = 4 =>
              /\ {"name", "people", "consumption"} \subseteq DOMAIN state[c]
              /\ state[c]["people"] > 0

\* The field an accepted input of a step stores, and the step that stores a field.
OwnField(step) ==
    CASE step = 1 -> {"name"} [] step = 2 -> {"people"} [] step = 3 -> {"consumption"}
      [] step = 4 -> {"price_per_kwh"} [] OTHER -> {}
StoredAt(key) ==
    CASE key = "name" -> 1 [] key = "people" -> 2 [] key = "consumption" -> 3
      [] key = "price_per_kwh" -> 4

\* after has the keys of before and those of changed, and differs from
\* before on the keys of changed at most.
FrameKept(before, after, changed) ==
    /\ DOMAIN after = DOMAIN before \cup changed
    /\ \A k \in DOMAIN before \ changed : after[k] = before[k]

OnlyOwnField ==
    \A c \in DOMAIN state :
        (Returned(c) /\ PreStep(c) \in 1..5 /\ Accepted(PreStep(c), last[c].msg))
        => /\ FrameKept(last[c].pre, state[c], OwnField(PreStep(c)) \cup {"step"})
           /\ state[c]["step"] = PreStep(c) + 1

StoredKept ==
    \A c \in DOMAIN state :
        \A k \in {"name", "people", "consumption", "price_per_kwh"} \cap DOMAIN state[c] :
            (StepOf(state[c]) \in (StoredAt(k) + 1)..6 /\ StepOf(state'[c]) # 0)
            => (k \in DOMAIN state'[c] /\ state'[c][k] = state[c][k])

\* C17: a turn that accepts its input at step 1, 2, 3, 4 or 5 changes the
\* step and the field of that step (name, people, consumption,
\* price_per_kwh, none at step 5) and nothing else; and a field stored at
\* an earlier step keeps its value in every turn that is not a reset.
C17_FrameOfAcceptedInput == []OnlyOwnField /\ [][StoredKept]_vars

C17_Witness ==
    /\ Returned("a") /\ PreStep("a") = 4 /\ last["a"].msg = M_2p5
    /\ state["a"]["step"] = 5
    /\ state["a"]["price_per_kwh"] = Fin(5, 2)
    /\ "price_per_kwh" \notin DOMAIN last["a"].pre
    /\ \A k \in {"name", "people", "consumption", "details"} :
          k \in DOMAIN state["a"] /\ state["a"][k] = last["a"].pre[k]

\* One conversation from {step: 0} whose turns that change the step are
\* counted in pc from the last time it was at step 0.
CountedTurn(message) ==
    /\ Exchange("a", message)
    /\ pc' = IF StepOf(state'["a"]) = StepOf(state["a"]) THEN pc
             ELSE IF StepOf(state["a"]) = 0 THEN 1 ELSE pc + 1
    /\ UNCHANGED <<hist, rec, prev>>
NextCounted == \E m \in Inputs(StepOf(state["a"])) : CountedTurn(m)
SpecCounted == Init /\ [][NextCounted]_vars

\* The input that takes a dialogue on: what the step accepts, either answer
\* at step 5, any message at step 6.
TakesOn(step, message) == step \in {5, 6} \/ Accepted(step, message)
StepAfter(r) == IF r.exc = "none" THEN StepOf(r.state) ELSE -1
MovesOn(st, message) ==
    StepAfter(ChatEndpoint(Payload(st, message), energy_data))
        \in {StepOf(st) + 1, 0} \ {StepOf(st)}

\* C18: no reached state is a dead end and the way round has 6 or 7 turns.
\* By the linear protocol a step s in 1..6 leads to step 0 through s + 1, ...,
\* so step 0 stays reachable exactly when every reached state has a message
\* that moves its step on; the input the step accepts does move it on; and
\* the turn that brings the dialogue back to step 0 is the 6th that changed
\* the step when it declines at step 5, the 7th when it follows step 6.
C18_NoDeadEnd ==
    /\ \E m \in Inputs(StepOf(state["a"])) : MovesOn(state["a"], m)
    /\ (Turned("a") /\ TakesOn(PreStep("a"), last["a"].msg))
         => (Returned("a") /\ StepOf(state["a"]) # PreStep("a"))
    /\ (Returned("a") /\ StepOf(state["a"]) = 0 /\ PreStep("a") \in {5, 6})
         => pc = (IF PreStep("a") = 5 THEN 6 ELSE 7)

TierList(specific, level, cpp) ==
    /\ SubSeq(specific, 1, Len(SpecificRecommendations(level, cpp)))
         = SpecificRecommendations(level, cpp)
    /\ \E i \in 1..Len(specific) :
          "value" \in DOMAIN specific[i] /\ specific[i].value = Fmt2(cpp)
    /\ Len(specific)
         = Len(SpecificRecommendations(level, cpp)) + Cardinality(SavingsLines(specific))

\* C19: every alto result carries a savings line, no bajo result carries
\* one, a normal result carries one unless the per-person value equals
\* mean - stddev; and the specific list is that of the level returned, with
\* its per-person consumption line.
C19_TierDecidesSavings ==
    Recommended(rec) =>
        /\ rec.out.consumption_level = "alto" => SavingsLines(rec.out.specific) # {}
        /\ rec.out.consumption_level = "bajo" => SavingsLines(rec.out.specific) = {}
        /\ rec.out.consumption_level = "normal" =>
              (SavingsLines(rec.out.specific) = {}
               <=> FEq(FDivInt(rec.consumption, rec.people),
                       Threshold("normal", ConsumptionsPerPerson(energy_data))))
        /\ TierList(rec.out.specific, rec.out.consumption_level,
                    FDivInt(rec.consumption, rec.people))

====
